---- MODULE Spec2Model ----
(***************************************************************************)
(* Model of src/api/api_fraude.py: the ModelManager singleton (artifact    *)
(* loading, input validation, preprocessing) and the Flask route handlers  *)
(* /predict, /health, /test, /test/fraud, /info and /.                     *)
(*                                                                         *)
(* Numbers: a probability is an integer number of hundredths (80 = 0.8);   *)
(* an amount or a feature value is an integer.  A JSON string is a         *)
(* sequence of characters, parsed the way Python's float() parses it.      *)
(***************************************************************************)
EXTENDS Integers, Sequences, FiniteSets, TLC

(***************************************************************************)
(* Bounds of the model.                                                    *)
(***************************************************************************)
\* Number of anonymised signal fields V1..V<NumV> of a payload.  The program
\* has 28 of them (range(1, 29)); the model keeps the same list shape
\* (V1..Vn, then Amount) with a small n.
NumV == 2

\* Step, in hundredths, between the fraud probabilities the classifier is
\* allowed to return: 0, ProbStep, 2*ProbStep, ... up to 100.
ProbStep == 4

(***************************************************************************)
(* The file system seen by load_models.                                    *)
(***************************************************************************)
\* base_paths, in search order.
base_paths == <<"models/", "../models/", "./">>

\* model_files: logical name -> file name, in dict (insertion) order.
model_names == <<"modelo", "scaler", "features", "metadata">>

model_files ==
  [ modelo   |-> "modelo_fraude.pkl",
    scaler   |-> "scaler_amount.pkl",
    features |-> "feature_names.pkl",
    metadata |-> "modelo_metadata.pkl" ]

Artifacts == {model_names[i] : i \in 1..Len(model_names)}

\* The directory sets a file may live in: nowhere, in the first candidate, or
\* in the two later candidates at once.
DirChoices == { {}, {1}, {2, 3} }

\* os.path.join(base_path, filename)
FullPath(i, name) == <<base_paths[i], model_files[name]>>

\* The inner loop of the search: the first base path where the file exists,
\* or 0 when the loop ends with found = False.
FirstBase(dirs) ==
  IF dirs = {} THEN 0
  ELSE CHOOSE i \in dirs : \A j \in dirs : i <= j

\* model_paths after the search loop, for the artifacts that did not raise:
\* a full path, or None.
NoPath == <<"", "">>

ModelPath(fsys, name) ==
  IF FirstBase(fsys[name]) = 0 THEN NoPath
  ELSE FullPath(FirstBase(fsys[name]), name)

\* The search loop raises FileNotFoundError for a missing file that is
\* neither the metadata nor the scaler.
SearchRaises(fsys) ==
  \E i \in 1..Len(model_names) :
     /\ FirstBase(fsys[model_names[i]]) = 0
     /\ model_names[i] # "metadata"
     /\ model_names[i] # "scaler"

(***************************************************************************)
(* Artifacts held by the ModelManager.                                     *)
(***************************************************************************)
\* [f'V{i}' for i in range(1, 29)] + ['Amount_Norm']
DefaultFeatureNames ==
  [i \in 1..(NumV + 1) |-> IF i <= NumV THEN <<"V", i>> ELSE <<"Amount_Norm", 0>>]

\* Python's None in a field of the manager.
None == [kind |-> "none", path |-> NoPath]

\* An object unpickled from a file.
Loaded(path) == [kind |-> "file", path |-> path]

\* The StandardScaler fitted on the fixed amount sample.
TempScaler == [kind |-> "temp", path |-> NoPath]

\* The feature-name list: unpickled, or the default one.
LoadedFeatures(path) == [kind |-> "file", path |-> path, names |-> DefaultFeatureNames]
DefaultFeatures      == [kind |-> "default", path |-> NoPath, names |-> DefaultFeatureNames]

\* The default metadata dict.
DefaultMetadata(feats) ==
  [kind |-> "default", path |-> NoPath, isdict |-> TRUE,
   modelo_tipo |-> "XGBoost", versao_modelo |-> "1.0.0",
   numero_features |-> Len(feats.names), data_treinamento |-> "Nao disponivel"]

\* The unpickled metadata: a dict, unless the file holds another object.
LoadedMetadata(path, isdict) ==
  [kind |-> "file", path |-> path, isdict |-> isdict,
   modelo_tipo |-> "XGBoost", versao_modelo |-> "file",
   numero_features |-> NumV + 1, data_treinamento |-> "file"]

\* ModelManager.__init__
EmptyManager ==
  [modelo |-> None, scaler |-> None, feature_names |-> None,
   metadata |-> None, model_loaded |-> FALSE]

\* The loading steps of load_models, in order; joblib.load raises on a file
\* in `bad`.  Each step is given the manager as the previous steps left it;
\* `ret` is the value load_models returns.
LoadModelo(m, fsys, bad) ==
  IF "modelo" \in bad
    THEN [mgr |-> m, raised |-> TRUE]
    ELSE [mgr |-> [m EXCEPT !.modelo = Loaded(ModelPath(fsys, "modelo"))],
          raised |-> FALSE]

LoadScaler(m, fsys, bad) ==
  IF ModelPath(fsys, "scaler") # NoPath
    THEN IF "scaler" \in bad
           THEN [mgr |-> m, raised |-> TRUE]
           ELSE [mgr |-> [m EXCEPT !.scaler = Loaded(ModelPath(fsys, "scaler"))],
                 raised |-> FALSE]
    ELSE [mgr |-> [m EXCEPT !.scaler = TempScaler], raised |-> FALSE]

LoadFeatures(m, fsys, bad) ==
  IF ModelPath(fsys, "features") # NoPath
    THEN IF "features" \in bad
           THEN [mgr |-> m, raised |-> TRUE]
           ELSE [mgr |-> [m EXCEPT !.feature_names =
                                     LoadedFeatures(ModelPath(fsys, "features"))],
                 raised |-> FALSE]
    ELSE [mgr |-> [m EXCEPT !.feature_names = DefaultFeatures], raised |-> FALSE]

LoadMetadata(m, fsys, bad, isdict) ==
  IF ModelPath(fsys, "metadata") # NoPath
    THEN IF "metadata" \in bad
           THEN [mgr |-> m, raised |-> TRUE]
           ELSE [mgr |-> [m EXCEPT !.metadata =
                                     LoadedMetadata(ModelPath(fsys, "metadata"), isdict)],
                 raised |-> FALSE]
    ELSE [mgr |-> [m EXCEPT !.metadata = DefaultMetadata(m.feature_names)],
          raised |-> FALSE]

\* The except branch without the reset of model_loaded.
LoadFailed_keeps_flag(m) == [mgr |-> m, ret |-> FALSE]

\* The except branch: model_loaded = False, return False.
LoadFailed(m) == [mgr |-> [m EXCEPT !.model_loaded = FALSE], ret |-> FALSE]

\* The end of the try block: model_loaded = True, then the log lines, whose
\* self.metadata.get raises AttributeError on a metadata that is no dict.
LoadFinish(m) ==
  LET loaded == [m EXCEPT !.model_loaded = TRUE] IN
  IF loaded.metadata.isdict
    THEN [mgr |-> loaded, ret |-> TRUE]
    ELSE LoadFailed(loaded)

\* ModelManager.load_models as a function of the file system.
load_models(m, fsys, bad, isdict) ==
  IF SearchRaises(fsys) THEN LoadFailed(m)
  ELSE LET s1 == LoadModelo(m, fsys, bad) IN
       IF s1.raised THEN LoadFailed(s1.mgr)
       ELSE LET s2 == LoadScaler(s1.mgr, fsys, bad) IN
       IF s2.raised THEN LoadFailed(s2.mgr)
       ELSE LET s3 == LoadFeatures(s2.mgr, fsys, bad) IN
       IF s3.raised THEN LoadFailed(s3.mgr)
       ELSE LET s4 == LoadMetadata(s3.mgr, fsys, bad, isdict) IN
       IF s4.raised THEN LoadFailed(s4.mgr)
       ELSE LoadFinish(s4.mgr)

(***************************************************************************)
(* Request payloads: a JSON object restricted to the required keys.        *)
(***************************************************************************)
\* JSON values of a key: a number, a string, or the key is not there.
Absent == [t |-> "absent", n |-> 0, s |-> <<>>]
Num(n) == [t |-> "num", n |-> n, s |-> <<>>]
Str(s) == [t |-> "str", n |-> 0, s |-> s]

\* required_fields = [f'V{i}' for i in range(1, 29)] + ['Amount']
Amount == <<"Amount", 0>>

required_fields ==
  [i \in 1..(NumV + 1) |-> IF i <= NumV THEN <<"V", i>> ELSE Amount]

FieldSet == {required_fields[i] : i \in 1..Len(required_fields)}

\* The values a signal field takes in the requests of the model.
VValues == {Absent, Num(-5), Num(7), Str(<<"7">>), Str(<<"a">>)}

\* The values Amount takes in the requests of the model.
AmountValues ==
  {Absent, Num(-5), Num(0), Num(7), Str(<<"-", "5">>), Str(<<"7">>), Str(<<"a">>)}

\* A key that is not a required field, and the values it takes.
Extra == <<"extra", 0>>

ExtraValues == {Absent, Num(3)}

\* The keys of a payload: the required fields and the extra key.
Keys == FieldSet \cup {Extra}

Payloads ==
  {d \in [Keys -> VValues \cup AmountValues \cup ExtraValues] :
     /\ d[Amount] \in AmountValues
     /\ d[Extra] \in ExtraValues
     /\ \A f \in FieldSet \ {Amount} : d[f] \in VValues}

\* `field in dados`
HasKey(dados, field) == dados[field].t # "absent"

\* `not dados`: an empty JSON object is falsy.
IsEmpty(dados) == \A f \in Keys : ~HasKey(dados, f)

(***************************************************************************)
(* float(x) on a JSON value.                                               *)
(***************************************************************************)
Digits == {"0", "5", "7"}

DigitValue(c) == IF c = "5" THEN 5 ELSE IF c = "7" THEN 7 ELSE 0

\* The value of a run of decimal digits.
RECURSIVE DigitsValue(_)
DigitsValue(s) ==
  IF s = <<>> THEN 0
  ELSE 10 * DigitsValue(SubSeq(s, 1, Len(s) - 1)) + DigitValue(s[Len(s)])

AllDigits(s) == Len(s) >= 1 /\ \A i \in 1..Len(s) : s[i] \in Digits

\* float() of a string: an optional sign and one or more digits (the part of
\* Python's float grammar that the strings of the model exercise); anything
\* else is a ValueError.
FloatOfString(s) ==
  IF AllDigits(s) THEN [ok |-> TRUE, val |-> DigitsValue(s)]
  ELSE IF Len(s) >= 2 /\ s[1] = "-" /\ AllDigits(Tail(s))
         THEN [ok |-> TRUE, val |-> 0 - DigitsValue(Tail(s))]
         ELSE [ok |-> FALSE, val |-> 0]

\* float(v): a number converts to itself, a string is parsed.
ToFloat(v) ==
  IF v.t = "num" THEN [ok |-> TRUE, val |-> v.n]
  ELSE FloatOfString(v.s)

(***************************************************************************)
(* ModelManager.validate_input                                             *)
(***************************************************************************)
MsgMissing == "Campos obrigatorios nao encontrados"
MsgType    == "Campo deve ser um numero valido"
MsgAmount  == "Amount deve ser maior ou igual a zero"
MsgValid   == "Dados validos"

\* What a call of validate_input does: it returns (ok, msg), where `fields`
\* is the list of fields the message names, or it raises `exc`.
Returns(ok, msg, fields) == [exc |-> "", ok |-> ok, msg |-> msg, fields |-> fields]
Raises(exc) == [exc |-> exc, ok |-> FALSE, msg |-> "", fields |-> <<>>]

\* [field for field in required_fields if field not in dados]
RECURSIVE MissingFrom(_, _)
MissingFrom(dados, i) ==
  IF i > Len(required_fields) THEN <<>>
  ELSE IF HasKey(dados, required_fields[i])
         THEN MissingFrom(dados, i + 1)
         ELSE <<required_fields[i]>> \o MissingFrom(dados, i + 1)

missing_fields(dados) == MissingFrom(dados, 1)

\* The type loop: the index of the first required field whose float() raises
\* ValueError or TypeError, or 0 when the loop completes.
FirstBadField(dados) ==
  IF \A i \in 1..Len(required_fields) : ToFloat(dados[required_fields[i]]).ok
    THEN 0
    ELSE CHOOSE i \in 1..Len(required_fields) :
           /\ ~ToFloat(dados[required_fields[i]]).ok
           /\ \A j \in 1..(i - 1) : ToFloat(dados[required_fields[j]]).ok

\* `dados['Amount'] < 0` on the raw value: a comparison of numbers, and a
\* TypeError between a str and an int.
AmountCheck(dados) ==
  IF dados[Amount].t = "str" THEN Raises("TypeError")
  ELSE IF dados[Amount].n < 0
         THEN Returns(FALSE, MsgAmount, <<>>)
         ELSE Returns(TRUE, MsgValid, <<>>)

\* validate_input with the range check moved ahead of the type loop.
validate_input_range_first(dados) ==
  IF missing_fields(dados) # <<>>
    THEN Returns(FALSE, MsgMissing, missing_fields(dados))
  ELSE IF dados[Amount].t = "num" /\ dados[Amount].n < 0
    THEN Returns(FALSE, MsgAmount, <<>>)
  ELSE IF FirstBadField(dados) # 0
    THEN Returns(FALSE, MsgType, <<required_fields[FirstBadField(dados)]>>)
  ELSE AmountCheck(dados)

validate_input(dados) ==
  IF missing_fields(dados) # <<>>
    THEN Returns(FALSE, MsgMissing, missing_fields(dados))
  ELSE IF FirstBadField(dados) # 0
    THEN Returns(FALSE, MsgType, <<required_fields[FirstBadField(dados)]>>)
  ELSE AmountCheck(dados)

(***************************************************************************)
(* ModelManager.preprocess_data                                            *)
(***************************************************************************)
\* self.scaler.transform([[x]])[0][0]: the scaler's image of x.
Transform(scaler, x) == [by |-> scaler.kind, of |-> x]

\* A raw feature value in the vector.
Raw(x) == [by |-> "raw", of |-> x]

\* preprocess_data with the features appended in descending order.
preprocess_data_reversed(scaler, dados) ==
  [i \in 1..(NumV + 1) |->
     IF i <= NumV THEN Raw(ToFloat(dados[<<"V", NumV + 1 - i>>]).val)
     ELSE Transform(scaler, ToFloat(dados[Amount]).val)]

\* The single row of the returned array: float(V1)..float(V28), then the
\* normalised amount.
preprocess_data(scaler, dados) ==
  [i \in 1..(NumV + 1) |->
     IF i <= NumV THEN Raw(ToFloat(dados[<<"V", i>>]).val)
     ELSE Transform(scaler, ToFloat(dados[Amount]).val)]

(***************************************************************************)
(* The classifier and the scaler as the handlers see them: each call       *)
(* returns a value or raises.                                              *)
(***************************************************************************)
\* Exception classes a collaborator raises: KeyError, and one class that is
\* not a KeyError.
ExcTypes == {"KeyError", "ValueError"}

\* Fraud probabilities, in hundredths.
Probs == {p \in 0..100 : p % ProbStep = 0}

\* What the collaborators do during one request: `pre` is the exception of
\* scaler.transform, `pred` the exception of modelo.predict and `label` its
\* result, `proba` the exception of modelo.predict_proba and `p` the fraud
\* probability it returns ("" = no exception, -1 = not returned).
Env(pre, pred, label, proba, p) ==
  [pre |-> pre, pred |-> pred, label |-> label, proba |-> proba, p |-> p]

NoEnv == Env("", "", -1, "", -1)

\* The runs of preprocess_data, predict and predict_proba, each stopping at
\* the first exception.  The temporary StandardScaler does not raise on a
\* finite amount; an unpickled scaler may.
ScoringEnvs(scaler) ==
     {Env(e, "", -1, "", -1) : e \in IF scaler.kind = "file" THEN ExcTypes ELSE {}}
  \cup {Env("", e, -1, "", -1) : e \in ExcTypes}
  \cup {Env("", "", l, e, -1) : l \in {0, 1}, e \in ExcTypes}
  \cup {Env("", "", l, "", p) : l \in {0, 1}, p \in Probs}

\* The runs of the smoke prediction of the health check.
SmokeEnvs ==
  {Env("", e, -1, "", -1) : e \in ExcTypes} \cup {Env("", "", l, "", -1) : l \in {0, 1}}

(***************************************************************************)
(* Responses.                                                              *)
(***************************************************************************)
NoResult ==
  [fraude |-> -1, probabilidade_fraude |-> -1, probabilidade_normal |-> -1,
   status |-> "", nivel_risco |-> "", acao |-> "", confianca |-> ""]

\* A JSON error body {'erro': ..., 'status': ...} with its HTTP code.
ErrorResponse(code, status, erro) ==
  [code |-> code, status |-> status, erro |-> erro, resultado |-> NoResult,
   api_status |-> "", model_status |-> ""]

\* The body of /health with its HTTP code.
HealthResponse(code, api_status, model_status) ==
  [code |-> code, status |-> "", erro |-> "", resultado |-> NoResult,
   api_status |-> api_status, model_status |-> model_status]

\* A 200 body carrying a result.
ResultResponse(resultado) ==
  [code |-> 200, status |-> "", erro |-> "", resultado |-> resultado,
   api_status |-> "", model_status |-> ""]

NoResponse == ErrorResponse(0, "", "")

(***************************************************************************)
(* /predict                                                                *)
(***************************************************************************)
\* The thresholds of the risk levels, in hundredths.
VeryHighFrom == 80
HighFrom     == 60
MediumFrom   == 40
LowFrom      == 20

\* The chain with strict comparisons.
risk_level_strict(prob_fraude) ==
  IF prob_fraude > VeryHighFrom THEN "MUITO_ALTO"
  ELSE IF prob_fraude > HighFrom THEN "ALTO"
  ELSE IF prob_fraude > MediumFrom THEN "MEDIO"
  ELSE IF prob_fraude > LowFrom THEN "BAIXO"
  ELSE "MUITO_BAIXO"

\* The if/elif chain on prob_fraude.
risk_level(prob_fraude) ==
  IF prob_fraude >= VeryHighFrom THEN "MUITO_ALTO"
  ELSE IF prob_fraude >= HighFrom THEN "ALTO"
  ELSE IF prob_fraude >= MediumFrom THEN "MEDIO"
  ELSE IF prob_fraude >= LowFrom THEN "BAIXO"
  ELSE "MUITO_BAIXO"

Abs(x) == IF x < 0 THEN 0 - x ELSE x

\* The centre and the margin of the confidence test, in hundredths.
ConfCentre == 50
ConfMargin == 30

\* The confidence test with >= for >.
confianca_inclusive(prob_fraude) ==
  IF Abs(prob_fraude - ConfCentre) >= ConfMargin THEN "ALTA" ELSE "MEDIA"

\* 'ALTA' if abs(prob_fraude - 0.5) > 0.3 else 'MEDIA'
confianca(prob_fraude) ==
  IF Abs(prob_fraude - ConfCentre) > ConfMargin THEN "ALTA" ELSE "MEDIA"

\* The response with the action taken from the probability, not the label.
PredictResult_action_from_prob(resultado, prob_fraude) ==
  [fraude               |-> resultado,
   probabilidade_fraude |-> prob_fraude,
   probabilidade_normal |-> 100 - prob_fraude,
   status               |-> IF resultado = 1 THEN "FRAUDE" ELSE "NORMAL",
   nivel_risco          |-> risk_level(prob_fraude),
   acao                 |-> IF prob_fraude >= ConfCentre THEN "BLOQUEAR" ELSE "APROVAR",
   confianca            |-> confianca(prob_fraude)]

\* The 'resultado' and 'recomendacao' parts of the 200 response.
PredictResult(resultado, prob_fraude) ==
  [fraude               |-> resultado,
   probabilidade_fraude |-> prob_fraude,
   probabilidade_normal |-> 100 - prob_fraude,
   status               |-> IF resultado = 1 THEN "FRAUDE" ELSE "NORMAL",
   nivel_risco          |-> risk_level(prob_fraude),
   acao                 |-> IF resultado = 1 THEN "BLOQUEAR" ELSE "APROVAR",
   confianca            |-> confianca(prob_fraude)]

\* The two except clauses of predict.
PredictExcept(exc) ==
  IF exc = "KeyError"
    THEN ErrorResponse(400, "VALIDATION_ERROR", "Campo obrigatorio nao encontrado")
    ELSE ErrorResponse(500, "INTERNAL_ERROR", "Erro interno do servidor")

\* What one run of a handler leaves behind: the response, the calls it made
\* on the manager and the classifier, in order, what validate_input did, and
\* the array preprocess_data returned (<<>> when it returned none).
Done(resp, calls, vres, entrada) ==
  [resp |-> resp, calls |-> calls, vres |-> vres, entrada |-> entrada]

Ran(resp, calls, vres) == Done(resp, calls, vres, <<>>)

NoValidation == Raises("not called")

\* predict from preprocess_data on, once validation has passed.
PredictScore(m, dados, env, vres) ==
  LET entrada == preprocess_data(m.scaler, dados) IN
  IF env.pre # ""
    THEN Ran(PredictExcept(env.pre), <<"validate_input", "preprocess_data">>, vres)
  ELSE IF env.pred # ""
    THEN Done(PredictExcept(env.pred),
              <<"validate_input", "preprocess_data", "predict">>, vres, entrada)
  ELSE IF env.proba # ""
    THEN Done(PredictExcept(env.proba),
              <<"validate_input", "preprocess_data", "predict", "predict_proba">>,
              vres, entrada)
  ELSE Done(ResultResponse(PredictResult(env.label, env.p)),
            <<"validate_input", "preprocess_data", "predict", "predict_proba">>,
            vres, entrada)

\* predict with is_valid never tested.
PredictValidate_unchecked(m, dados, env) ==
  LET vres == validate_input(dados) IN
  IF vres.exc # ""
    THEN Ran(PredictExcept(vres.exc), <<"validate_input">>, vres)
    ELSE PredictScore(m, dados, env, vres)

\* predict from validate_input on.
PredictValidate(m, dados, env) ==
  LET vres == validate_input(dados) IN
  IF vres.exc # ""
    THEN Ran(PredictExcept(vres.exc), <<"validate_input">>, vres)
  ELSE IF ~vres.ok
    THEN Ran(ErrorResponse(400, "VALIDATION_ERROR", vres.msg), <<"validate_input">>, vres)
  ELSE PredictScore(m, dados, env, vres)

\* predict without the model_loaded test.
predict_ungated(m, dados, env) ==
  IF IsEmpty(dados)
    THEN Ran(ErrorResponse(400, "ERROR", "Dados JSON nao fornecidos"), <<>>, NoValidation)
    ELSE PredictValidate(m, dados, env)

\* The route handler predict().
predict(m, dados, env) ==
  IF ~m.model_loaded
    THEN Ran(ErrorResponse(503, "ERROR", "Modelo nao carregado"), <<>>, NoValidation)
  ELSE IF IsEmpty(dados)
    THEN Ran(ErrorResponse(400, "ERROR", "Dados JSON nao fornecidos"), <<>>, NoValidation)
  ELSE PredictValidate(m, dados, env)

(***************************************************************************)
(* /health                                                                 *)
(***************************************************************************)
\* health_check whose except branch answers like the not-loaded branch.
health_check_except_degraded(m, env) ==
  IF m.model_loaded
    THEN IF env.pred # ""
           THEN Ran(HealthResponse(503, "degraded", "error"), <<"predict">>, NoValidation)
           ELSE Ran(HealthResponse(200, "healthy", "healthy"), <<"predict">>, NoValidation)
    ELSE Ran(HealthResponse(503, "degraded", "error"), <<>>, NoValidation)

\* health_check whose else branch does not set api_status.
health_check_else_healthy(m, env) ==
  IF m.model_loaded
    THEN IF env.pred # ""
           THEN Ran(HealthResponse(500, "error", "error"), <<"predict">>, NoValidation)
           ELSE Ran(HealthResponse(200, "healthy", "healthy"), <<"predict">>, NoValidation)
    ELSE Ran(HealthResponse(200, "healthy", "error"), <<>>, NoValidation)

health_check(m, env) ==
  IF m.model_loaded
    THEN IF env.pred # ""
           THEN Ran(HealthResponse(500, "error", "error"), <<"predict">>, NoValidation)
           ELSE Ran(HealthResponse(200, "healthy", "healthy"), <<"predict">>, NoValidation)
    ELSE Ran(HealthResponse(503, "degraded", "error"), <<>>, NoValidation)

(***************************************************************************)
(* /test and /test/fraud                                                   *)
(***************************************************************************)
\* dados_teste of test_normal and of test_fraud; the values are cut to their
\* integer parts (V1 = -1.359807, Amount = 149.62; V1 = -4.832, Amount = 1.00).
dados_teste_normal ==
  [f \in Keys |-> IF f = Amount THEN Num(149) ELSE IF f = Extra THEN Absent ELSE Num(-1)]
dados_teste_fraud ==
  [f \in Keys |-> IF f = Amount THEN Num(1) ELSE IF f = Extra THEN Absent ELSE Num(-4)]

TestResult(resultado, prob_fraude) ==
  [NoResult EXCEPT !.fraude = resultado,
                   !.probabilidade_fraude = prob_fraude,
                   !.probabilidade_normal = 100 - prob_fraude,
                   !.status = IF resultado = 1 THEN "FRAUDE" ELSE "NORMAL"]

TestExcept == ErrorResponse(500, "TEST_ERROR", "Erro durante o teste")

_execute_test(m, dados_teste, env) ==
  LET entrada == preprocess_data(m.scaler, dados_teste) IN
  IF ~m.model_loaded
    THEN Ran(ErrorResponse(503, "ERROR", "Modelo nao carregado para teste"),
             <<>>, NoValidation)
  ELSE IF env.pre # ""
    THEN Ran(TestExcept, <<"preprocess_data">>, NoValidation)
  ELSE IF env.pred # ""
    THEN Done(TestExcept, <<"preprocess_data", "predict">>, NoValidation, entrada)
  ELSE IF env.proba # ""
    THEN Done(TestExcept, <<"preprocess_data", "predict", "predict_proba">>,
              NoValidation, entrada)
  ELSE Done(ResultResponse(TestResult(env.label, env.p)),
            <<"preprocess_data", "predict", "predict_proba">>, NoValidation, entrada)

(***************************************************************************)
(* /info and /                                                             *)
(***************************************************************************)
\* The 200 bodies of /info and / carry nothing the model reads back.
InfoResponse == [NoResponse EXCEPT !.code = 200]

model_info(m) ==
  IF ~m.model_loaded
    THEN Ran(ErrorResponse(503, "ERROR", "Modelo nao carregado"), <<>>, NoValidation)
    ELSE Ran(InfoResponse, <<>>, NoValidation)

home(m) == Ran(InfoResponse, <<>>, NoValidation)

(***************************************************************************)
(* State.                                                                  *)
(***************************************************************************)
VARIABLES
  fsys,     \* artifact name -> the base paths (indices) where its file exists
  bad,      \* the artifacts whose file joblib.load cannot unpickle
  meta_dict,\* whether the object in the metadata file is a dict
  others,   \* other worker thread -> the route of the request it is handling
  mgr,      \* model_manager: modelo, scaler, feature_names, metadata, model_loaded
  phase,    \* "startup" before initialize_app has run, "serving" after
  load_ret, \* what load_models returned ("" before it has run)
  route,    \* the route of the request being answered ("" when idle)
  dados,    \* its payload (/predict) or its dados_teste (/test, /test/fraud)
  env,      \* what the scaler and the classifier did during the request
  ran       \* what the handler did: response, calls, validation, entrada

vars == <<fsys, bad, meta_dict, others, mgr, phase, load_ret, route, dados, env, ran>>

NoDados == [f \in Keys |-> Absent]

Idle == Ran(NoResponse, <<>>, NoValidation)

\* The files on disk: each artifact is in one of the directory sets, and a
\* file that is there may be one joblib.load fails on.
\* The worker threads that handle requests next to the one whose request the
\* state records.
OtherWorkers == {"w2"}

NoOthers == [w \in OtherWorkers |-> ""]

Init ==
  /\ fsys \in [Artifacts -> DirChoices]
  /\ bad \in SUBSET {a \in Artifacts : fsys[a] # {}}
  /\ meta_dict \in IF fsys["metadata"] # {} /\ "metadata" \notin bad
                     THEN BOOLEAN ELSE {TRUE}
  /\ others = NoOthers
  /\ mgr = EmptyManager
  /\ phase = "startup"
  /\ load_ret = ""
  /\ route = ""
  /\ dados = NoDados
  /\ env = NoEnv
  /\ ran = Idle

\* initialize_app: the one call of load_models, before any request is served.
initialize_app ==
  /\ phase = "startup"
  /\ LET r == load_models(mgr, fsys, bad, meta_dict) IN
       /\ mgr' = r.mgr
       /\ load_ret' = IF r.ret THEN "True" ELSE "False"
  /\ phase' = "serving"
  /\ UNCHANGED <<fsys, bad, meta_dict, others, route, dados, env, ran>>

\* A request is taken when the process serves and no answer is pending.
Accepting == phase = "serving" /\ route = ""

\* POST /predict with a JSON object.
Predict ==
  /\ Accepting
  /\ \E d \in Payloads :
       \E e \in IF mgr.model_loaded /\ validate_input(d).exc = "" /\ validate_input(d).ok
                  THEN ScoringEnvs(mgr.scaler) ELSE {NoEnv} :
         /\ route' = "/predict"
         /\ dados' = d
         /\ env' = e
         /\ ran' = predict(mgr, d, e)
  /\ UNCHANGED <<fsys, bad, meta_dict, others, mgr, phase, load_ret>>

\* GET /health, with an except clause that marks the model as not loaded.
Health_marks_unloaded ==
  /\ phase = "serving" /\ route = ""
  /\ \E e \in IF mgr.model_loaded THEN SmokeEnvs ELSE {NoEnv} :
       /\ route' = "/health"
       /\ env' = e
       /\ ran' = health_check(mgr, e)
       /\ mgr' = IF e.pred # "" THEN [mgr EXCEPT !.model_loaded = FALSE] ELSE mgr
  /\ UNCHANGED <<fsys, bad, meta_dict, others, phase, load_ret, dados>>

\* GET /health
Health ==
  /\ Accepting
  /\ \E e \in IF mgr.model_loaded THEN SmokeEnvs ELSE {NoEnv} :
       /\ route' = "/health"
       /\ env' = e
       /\ ran' = health_check(mgr, e)
  /\ UNCHANGED <<fsys, bad, meta_dict, others, mgr, phase, load_ret, dados>>

\* GET /test
TestNormal ==
  /\ Accepting
  /\ \E e \in IF mgr.model_loaded THEN ScoringEnvs(mgr.scaler) ELSE {NoEnv} :
       /\ route' = "/test"
       /\ dados' = dados_teste_normal
       /\ env' = e
       /\ ran' = _execute_test(mgr, dados_teste_normal, e)
  /\ UNCHANGED <<fsys, bad, meta_dict, others, mgr, phase, load_ret>>

\* GET /test/fraud
TestFraud ==
  /\ Accepting
  /\ \E e \in IF mgr.model_loaded THEN ScoringEnvs(mgr.scaler) ELSE {NoEnv} :
       /\ route' = "/test/fraud"
       /\ dados' = dados_teste_fraud
       /\ env' = e
       /\ ran' = _execute_test(mgr, dados_teste_fraud, e)
  /\ UNCHANGED <<fsys, bad, meta_dict, others, mgr, phase, load_ret>>

\* GET /info
Info ==
  /\ Accepting
  /\ route' = "/info"
  /\ ran' = model_info(mgr)
  /\ UNCHANGED <<fsys, bad, meta_dict, others, mgr, phase, load_ret, dados, env>>

\* GET /
Home ==
  /\ Accepting
  /\ route' = "/"
  /\ ran' = home(mgr)
  /\ UNCHANGED <<fsys, bad, meta_dict, others, mgr, phase, load_ret, dados, env>>

\* The response leaves; the next request can be taken.
Reply ==
  /\ route # ""
  /\ route' = ""
  /\ dados' = NoDados
  /\ env' = NoEnv
  /\ ran' = Idle
  /\ UNCHANGED <<fsys, bad, meta_dict, others, mgr, phase, load_ret>>

Next ==
  \/ initialize_app
  \/ Predict
  \/ Health
  \/ TestNormal
  \/ TestFraud
  \/ Info
  \/ Home
  \/ Reply

Spec == Init /\ [][Next]_vars

(***************************************************************************)
(* Concurrent requests: the threaded server runs the handlers of several   *)
(* requests at once.  Next to the request the state records, every other   *)
(* worker takes requests of its own once app.run serves, and runs the same *)
(* handlers, which assign to no field of model_manager.                    *)
(***************************************************************************)
Routes == {"/predict", "/health", "/test", "/test/fraud", "/info", "/"}

\* Worker w takes a request.
OtherBegin(w) ==
  /\ phase = "serving"
  /\ others[w] = ""
  /\ \E r \in Routes : others' = [others EXCEPT ![w] = r]
  /\ UNCHANGED <<fsys, bad, meta_dict, mgr, phase, load_ret, route, dados, env, ran>>

\* Worker w's handler returns, with a response or through an except clause.
OtherEnd(w) ==
  /\ others[w] # ""
  /\ others' = [others EXCEPT ![w] = ""]
  /\ UNCHANGED <<fsys, bad, meta_dict, mgr, phase, load_ret, route, dados, env, ran>>

\* One directory, every file loadable: the classifier and the optional
\* artifacts are there or not.
InitConcurrent ==
  /\ Init
  /\ bad = {}
  /\ meta_dict
  /\ \A a \in Artifacts : fsys[a] \in {{}, {1}}

NextConcurrent ==
  \/ Next
  \/ \E w \in OtherWorkers : OtherBegin(w)
  \/ \E w \in OtherWorkers : OtherEnd(w)

SpecConcurrent == InitConcurrent /\ [][NextConcurrent]_vars

(***************************************************************************)
(* Vocabulary of the properties.                                           *)
(***************************************************************************)
\* load_models has run.
Started == phase = "serving"

\* The file of an artifact is in some candidate directory.
Found(name) == fsys[name] # {}

\* The handler of the pending request called `name`.
Called(name) == \E i \in 1..Len(ran.calls) : ran.calls[i] = name

\* The number of times it did.
TimesCalled(name) == Cardinality({i \in 1..Len(ran.calls) : ran.calls[i] = name})

\* The pending request is a /predict that reached validate_input.
Validated == route = "/predict" /\ Called("validate_input")

\* The payload lacks a required key.
AnyMissing(d) == \E f \in FieldSet : d[f].t = "absent"

\* A value float() accepts.
Convertible(v) == v.t = "num" \/ (v.t = "str" /\ FloatOfString(v.s).ok)

AllConvertible(d) == \A f \in FieldSet : Convertible(d[f])

\* A collaborator raised during the pending request.
ScoringRaised == env.pre # "" \/ env.pred # "" \/ env.proba # ""

(***************************************************************************)
(* C1.  Claim: whenever the classifier file is found (and every file that   *)
(* is there unpickles to a usable object), load_models returns True,        *)
(* model_loaded is                                                          *)
(* True, each missing optional artifact (scaler, feature-name list,         *)
(* metadata) is replaced by its default, and a /predict on a valid payload  *)
(* whose collaborators do not raise is answered 200.                        *)
(* The search loop raises FileNotFoundError for a missing feature-name      *)
(* file, so the claim fails there.                                          *)
(***************************************************************************)
C1_MissingArtifactsStillLoad ==
  (Started /\ Found("modelo") /\ bad = {} /\ meta_dict) =>
     /\ load_ret = "True"
     /\ mgr.model_loaded
     /\ (~Found("scaler") => mgr.scaler = TempScaler)
     /\ (~Found("features") => mgr.feature_names.kind = "default"
                               /\ mgr.feature_names.names = DefaultFeatureNames)
     /\ (~Found("metadata") => mgr.metadata.kind = "default")
     /\ ( ( /\ route = "/predict"
            /\ ~AnyMissing(dados) /\ AllConvertible(dados)
            /\ dados[Amount].t = "num" /\ dados[Amount].n >= 0
            /\ ~ScoringRaised )
          => ran.resp.code = 200 )

(***************************************************************************)
(* C2.  When the classifier file is in no candidate directory, load_models  *)
(* returns False, model_loaded is False in every later state, and every     *)
(* request to /predict, /test, /test/fraud and /info is answered 503        *)
(* without a call of validate_input, preprocess_data or the classifier.     *)
(***************************************************************************)
GatedRoutes == {"/predict", "/test", "/test/fraud", "/info"}

C2_MissingClassifierRefuses ==
  (Started /\ ~Found("modelo")) =>
     /\ load_ret = "False"
     /\ ~mgr.model_loaded
     /\ (route \in GatedRoutes => ran.resp.code = 503 /\ ran.calls = <<>>)

C2_Witness ==
  /\ Started /\ ~Found("modelo") /\ Found("features")
  /\ route = "/predict" /\ ~AnyMissing(dados)
  /\ ran.resp.code = 503

(***************************************************************************)
(* C3.  validate_input reports the first failing category only: a missing   *)
(* key gives the missing-fields failure listing exactly the missing keys,   *)
(* whatever the other values are; with no key missing, a value float()      *)
(* rejects gives the type failure naming the first such field in the order  *)
(* V1.., Amount, even when Amount is negative; the negative-amount failure  *)
(* is returned only when all keys are present and all values convertible.   *)
(***************************************************************************)
\* The position of a field in V1.., Amount.
Position(f) == CHOOSE i \in 1..Len(required_fields) : required_fields[i] = f

FirstUnconvertible(d) ==
  CHOOSE f \in FieldSet :
    /\ ~Convertible(d[f])
    /\ \A g \in FieldSet : ~Convertible(d[g]) => Position(f) <= Position(g)

ListsMissing(fields, d) ==
  /\ Len(fields) = Cardinality({f \in FieldSet : d[f].t = "absent"})
  /\ \A f \in FieldSet : d[f].t = "absent" <=> \E i \in 1..Len(fields) : fields[i] = f

C3_FirstFailingCategory ==
  Validated =>
     /\ AnyMissing(dados) =>
          /\ ran.vres.exc = "" /\ ~ran.vres.ok /\ ran.vres.msg = MsgMissing
          /\ ListsMissing(ran.vres.fields, dados)
     /\ (~AnyMissing(dados) /\ ~AllConvertible(dados)) =>
          /\ ran.vres.exc = "" /\ ~ran.vres.ok /\ ran.vres.msg = MsgType
          /\ ran.vres.fields = <<FirstUnconvertible(dados)>>
     /\ ran.vres.msg = MsgAmount => ~AnyMissing(dados) /\ AllConvertible(dados)

C3_Witness ==
  /\ Validated
  /\ dados[<<"V", 1>>] = Str(<<"a">>) /\ dados[<<"V", 2>>] = Str(<<"a">>)
  /\ dados[Amount] = Num(-5)
  /\ ran.vres.msg = MsgType /\ ran.vres.fields = <<<<"V", 1>>>>

(***************************************************************************)
(* C4.  Claim: for every payload with all keys present, all values          *)
(* convertible and the numeric value of Amount below zero, validate_input   *)
(* returns (False, amount message), whether Amount is a number or a numeric *)
(* string.  The comparison is made on the raw value, so a numeric string    *)
(* raises TypeError instead.                                                *)
(***************************************************************************)
C4_NegativeAmountRejected ==
  ( /\ Validated
    /\ ~AnyMissing(dados) /\ AllConvertible(dados)
    /\ ToFloat(dados[Amount]).val < 0 )
  => ran.vres = Returns(FALSE, MsgAmount, <<>>)

(***************************************************************************)
(* C5.  Claim: validate_input always returns a (flag, message) pair and     *)
(* never raises; a payload whose values are all convertible with a          *)
(* non-negative Amount returns (True, message) and is not answered 500      *)
(* because of validation.  A numeric string as Amount raises TypeError.     *)
(***************************************************************************)
C5_ValidateNeverRaises ==
  Validated =>
     /\ ran.vres.exc = ""
     /\ ( ( /\ ~AnyMissing(dados) /\ AllConvertible(dados)
            /\ ToFloat(dados[Amount]).val >= 0 )
          => ran.vres.ok /\ (~ScoringRaised => ran.resp.code # 500) )

(***************************************************************************)
(* C6.  In /predict with the model loaded the steps run in the order        *)
(* validate, preprocess, classifier: when validate_input returns a failure  *)
(* the response is 400 and neither preprocess_data nor predict nor          *)
(* predict_proba is called; those are called only after validate_input      *)
(* returned success for the payload, preprocess_data before predict before  *)
(* predict_proba.                                                           *)
(***************************************************************************)
\* The calls of the handler are a prefix of the pipeline.
Pipeline == <<"validate_input", "preprocess_data", "predict", "predict_proba">>

C6_ValidateBeforeScoring ==
  (route = "/predict" /\ mgr.model_loaded) =>
     /\ (ran.vres.exc = "" /\ ~ran.vres.ok) =>
          /\ ran.resp.code = 400
          /\ ~Called("preprocess_data") /\ ~Called("predict") /\ ~Called("predict_proba")
     /\ (Called("preprocess_data") \/ Called("predict") \/ Called("predict_proba")) =>
          /\ ran.vres.exc = "" /\ ran.vres.ok
          /\ ~AnyMissing(dados) /\ AllConvertible(dados)
     /\ Len(ran.calls) <= Len(Pipeline)
     /\ ran.calls = SubSeq(Pipeline, 1, Len(ran.calls))

C6_Witness ==
  /\ route = "/predict" /\ mgr.model_loaded
  /\ ran.vres = Returns(FALSE, MsgAmount, <<>>)
  /\ ran.resp.code = 400
  /\ ran.calls = <<"validate_input">>

(***************************************************************************)
(* C7.  Claim: any exception raised by preprocessing or by predict or       *)
(* predict_proba during /predict, KeyError included, is answered 500 as an  *)
(* internal error, no call is repeated, and the manager stays loaded.       *)
(* The handler answers a KeyError 400 VALIDATION_ERROR.                     *)
(***************************************************************************)
C7_InferenceErrorIs500 ==
  (route = "/predict" /\ ScoringRaised) =>
     /\ ran.resp.code = 500
     /\ ran.resp.status = "INTERNAL_ERROR"
     /\ \A i \in 1..Len(Pipeline) : TimesCalled(Pipeline[i]) <= 1
     /\ mgr.model_loaded

(***************************************************************************)
(* C8.  Claim as stated: with the model loaded, a smoke prediction that     *)
(* raises makes the health check report model status error and overall      *)
(* status degraded, model_loaded staying True.                              *)
(***************************************************************************)
SmokeRaised == route = "/health" /\ mgr.model_loaded /\ env.pred # ""

C8_SmokeFailureDegraded ==
  SmokeRaised =>
     /\ ran.resp.model_status = "error"
     /\ ran.resp.api_status = "degraded"
     /\ mgr.model_loaded

(***************************************************************************)
(* C8, amended.  With the model loaded, a smoke prediction that raises      *)
(* makes the health check answer 500 with model status error and overall    *)
(* status error; the manager is as load_models left it (model_loaded True). *)
(***************************************************************************)
C8_SmokeFailureError ==
  SmokeRaised =>
     /\ ran.resp.code = 500
     /\ ran.resp.model_status = "error"
     /\ ran.resp.api_status = "error"
     /\ mgr = load_models(EmptyManager, fsys, bad, meta_dict).mgr
     /\ mgr.model_loaded

C8_Witness ==
  /\ SmokeRaised
  /\ env.pred = "ValueError"
  /\ ran.resp.code = 500

(***************************************************************************)
(* C9.  With model_loaded False the health check answers 503 with overall   *)
(* status degraded and model status error, without calling the classifier;  *)
(* with model_loaded True and a smoke prediction that succeeds it answers   *)
(* 200 healthy/healthy.                                                     *)
(***************************************************************************)
C9_HealthStatus ==
  route = "/health" =>
     /\ ~mgr.model_loaded =>
          /\ ran.resp.code = 503
          /\ ran.resp.api_status = "degraded"
          /\ ran.resp.model_status = "error"
          /\ ran.calls = <<>>
     /\ (mgr.model_loaded /\ env.pred = "") =>
          /\ ran.resp.code = 200
          /\ ran.resp.api_status = "healthy"
          /\ ran.resp.model_status = "healthy"

C9_Witness ==
  /\ route = "/health" /\ ~mgr.model_loaded
  /\ ran.resp.code = 503 /\ ran.resp.api_status = "degraded"

(***************************************************************************)
(* C10.  Every fraud probability p of a 200 /predict response gets the risk *)
(* level of its closed-open bin: p >= 0.8 MUITO_ALTO, 0.6 <= p < 0.8 ALTO,  *)
(* 0.4 <= p < 0.6 MEDIO, 0.2 <= p < 0.4 BAIXO, p < 0.2 MUITO_BAIXO; the     *)
(* level does not decrease when p grows.                                    *)
(***************************************************************************)
TierRank(t) ==
  IF t = "MUITO_ALTO" THEN 5
  ELSE IF t = "ALTO" THEN 4
  ELSE IF t = "MEDIO" THEN 3
  ELSE IF t = "BAIXO" THEN 2
  ELSE IF t = "MUITO_BAIXO" THEN 1
  ELSE 0

C10_RiskTierBins ==
  (route = "/predict" /\ ran.resp.code = 200) =>
     LET p == env.p
         t == ran.resp.resultado.nivel_risco
     IN /\ p \in 0..100
        /\ (p >= 80) <=> (t = "MUITO_ALTO")
        /\ (60 <= p /\ p < 80) <=> (t = "ALTO")
        /\ (40 <= p /\ p < 60) <=> (t = "MEDIO")
        /\ (20 <= p /\ p < 40) <=> (t = "BAIXO")
        /\ (p < 20) <=> (t = "MUITO_BAIXO")
        /\ \A q \in 0..100 : q <= p => TierRank(risk_level(q)) <= TierRank(t)

C10_Witness ==
  /\ route = "/predict" /\ ran.resp.code = 200
  /\ env.p = 80
  /\ ran.resp.resultado.nivel_risco = "MUITO_ALTO"

(***************************************************************************)
(* C11.  In every 200 /predict response the action is BLOQUEAR exactly when *)
(* the classifier's label is 1 and APROVAR otherwise, and the status is     *)
(* FRAUDE exactly when the label is 1 and NORMAL otherwise; so action and   *)
(* status agree, whatever the risk level is.                                *)
(***************************************************************************)
Scored == route = "/predict" /\ ran.resp.code = 200

C11_ActionFollowsLabel ==
  Scored =>
     LET r == ran.resp.resultado IN
     /\ env.label \in {0, 1}
     /\ r.fraude = env.label
     /\ (r.acao = "BLOQUEAR") <=> (env.label = 1)
     /\ (r.acao = "APROVAR") <=> (env.label # 1)
     /\ (r.status = "FRAUDE") <=> (env.label = 1)
     /\ (r.status = "NORMAL") <=> (env.label # 1)
     /\ (r.acao = "BLOQUEAR") <=> (r.status = "FRAUDE")

\* The highest risk level next to the action APROVAR.
C11_Witness ==
  /\ Scored
  /\ env.label = 0 /\ env.p = 100
  /\ ran.resp.resultado.nivel_risco = "MUITO_ALTO"
  /\ ran.resp.resultado.acao = "APROVAR"
  /\ ran.resp.resultado.status = "NORMAL"

(***************************************************************************)
(* C12.  For every fraud probability p of a 200 /predict response the       *)
(* confidence is ALTA when |p - 0.5| > 0.3 and MEDIA otherwise, never a     *)
(* third value; ALTA occurs only with the risk levels MUITO_ALTO and        *)
(* MUITO_BAIXO.                                                             *)
(***************************************************************************)
C12_ConfidenceTwoTiers ==
  Scored =>
     LET p == env.p
         c == ran.resp.resultado.confianca
         far == p - 50 > 30 \/ 50 - p > 30
     IN /\ c \in {"ALTA", "MEDIA"}
        /\ far <=> (c = "ALTA")
        /\ (c = "ALTA") =>
             ran.resp.resultado.nivel_risco \in {"MUITO_ALTO", "MUITO_BAIXO"}

\* A probability far from 0.5: ALTA, in the lowest risk level.
C12_Witness ==
  /\ Scored
  /\ env.p = 0
  /\ ran.resp.resultado.confianca = "ALTA"
  /\ ran.resp.resultado.nivel_risco = "MUITO_BAIXO"

(***************************************************************************)
(* C13.  For every payload that passes validation, and for the payloads of  *)
(* /test and /test/fraud, the array preprocess_data returns has one row of  *)
(* length 29 (here NumV + 1): positions 1..28 hold float(V1)..float(V28) in *)
(* ascending index order, whatever other keys the payload has, and the last *)
(* position holds the scaler's transform of float(Amount).                  *)
(***************************************************************************)
\* preprocess_data returned during the pending request.
Preprocessed ==
  /\ route \in {"/predict", "/test", "/test/fraud"}
  /\ Called("preprocess_data")
  /\ env.pre = ""

\* The number a JSON value stands for.
NumberOf(v) == IF v.t = "num" THEN v.n ELSE FloatOfString(v.s).val

C13_FeatureVector ==
  Preprocessed =>
     /\ Len(ran.entrada) = NumV + 1
     /\ \A i \in 1..NumV : ran.entrada[i] = [by |-> "raw", of |-> NumberOf(dados[<<"V", i>>])]
     /\ ran.entrada[NumV + 1] = [by |-> mgr.scaler.kind, of |-> NumberOf(dados[Amount])]
     /\ mgr.scaler.kind \in {"file", "temp"}

\* Different values in V1 and V2, a numeric string among them, and an extra
\* key in the payload.
C13_Witness ==
  /\ Preprocessed /\ route = "/predict"
  /\ dados[<<"V", 1>>] = Num(-5) /\ dados[<<"V", 2>>] = Str(<<"7">>)
  /\ dados[Amount] = Num(7) /\ dados[Extra] = Num(3)
  /\ ran.entrada[1].of = -5 /\ ran.entrada[2].of = 7
  /\ ran.entrada[NumV + 1] = [by |-> "temp", of |-> 7]

(***************************************************************************)
(* C14.  The fields of model_manager (modelo, scaler, feature_names,        *)
(* metadata, model_loaded) are written only by the load_models call of      *)
(* initialize_app, which runs before any request is taken; no step of a     *)
(* request handler, of this worker or of another one, in any interleaving,  *)
(* with a success or an error response, changes any of them.                *)
(***************************************************************************)
\* No request is in flight on any worker.
NoRequest == route = "" /\ \A w \in OtherWorkers : others[w] = ""

C14_SharedStateWrittenOnce ==
  /\ [](phase = "startup" => NoRequest /\ mgr = EmptyManager)
  /\ [][ \/ mgr' = mgr
         \/ phase = "startup" /\ phase' = "serving" /\ NoRequest ]_vars

\* A failed /predict answered while another worker handles a request, the
\* manager still as load_models left it.
C14_Witness ==
  /\ route = "/predict" /\ ran.resp.code = 500
  /\ \E w \in OtherWorkers : others[w] = "/health"
  /\ mgr.model_loaded
  /\ mgr = load_models(EmptyManager, fsys, bad, meta_dict).mgr

(***************************************************************************)
(* C15.  In every state, model_loaded = True implies that modelo, scaler,   *)
(* feature_names and metadata are all set; and whenever load_models fails   *)
(* (a required file not found, a file joblib.load cannot read, or the log   *)
(* lines raising after the flag was set) it returns False and leaves        *)
(* model_loaded False, whatever fields it had assigned before.              *)
(***************************************************************************)
IsSet(x) == x.kind # "none"

\* Some step of load_models raises.
LoadRaises ==
  \/ ~Found("modelo")
  \/ ~Found("features")
  \/ bad # {}
  \/ ~meta_dict

C15_LoadedImpliesPopulated ==
  /\ mgr.model_loaded =>
       /\ IsSet(mgr.modelo) /\ IsSet(mgr.scaler)
       /\ IsSet(mgr.feature_names) /\ IsSet(mgr.metadata)
  /\ Started =>
       /\ load_ret \in {"True", "False"}
       /\ (load_ret = "True") <=> mgr.model_loaded
       /\ LoadRaises => (load_ret = "False" /\ ~mgr.model_loaded)

\* A load that failed after the four fields had been assigned.
C15_Witness ==
  /\ Started /\ load_ret = "False" /\ ~mgr.model_loaded
  /\ IsSet(mgr.modelo) /\ IsSet(mgr.scaler)
  /\ IsSet(mgr.feature_names) /\ IsSet(mgr.metadata)

====
